---- MODULE Spec2Model ----
(***************************************************************************)
(* Flashcard-generation pipeline of jotta-backend.                         *)
(*                                                                         *)
(* routes/youtube.js exists in four versions and models/YoutubeVideo.js in *)
(* two.  The version in force is fixed in the initial state:               *)
(*   variant "openai"   src/backend/routes/youtube.js 1-193                *)
(*   variant "assembly" src/backend/routes/youtube.js 195-481              *)
(*   variant "chunks"   src/unnamed/part_002 21-316                        *)
(*   variant "status"   src/unnamed/part_003                               *)
(*   schema  "tracked"  src/unnamed/part_001 (status, error fields)        *)
(*   schema  "unique"   src/unnamed/part_002 1-19 (videoId unique)         *)
(* A handler is cut into steps at its awaits.  In the queue variants the   *)
(* single worker runs one job at a time and every call is a step.  In the  *)
(* status variant the runs interleave; there a collaborator call that      *)
(* touches neither the store nor the temp directory is taken together with *)
(* the next step that does, its outcome being an input of that step.       *)
(*                                                                         *)
(* Spec  is the pipeline: submissions, the queue worker or background run, *)
(*       and deletes that race with it.                                    *)
(* SpecFair is Spec with every step of a background run weakly fair.      *)
(* SpecQ is the router serving GET and DELETE requests on a stored         *)
(*       collection.                                                       *)
(* SpecT is summarizeTranscription of the chunks variant with the parsing  *)
(*       of its result into flashcards.                                    *)
(***************************************************************************)
EXTENDS Integers, Sequences, FiniteSets, TLC

\* ---------------------------------------------------------------- bounds
MaxJobs == 2
MaxChunks == 2
\* DELETE requests that find a record, per behaviour
MaxDeletes == 1

\* ------------------------------------------------------------ input sets
Owners == {"u1", "u2"}
VideoIds == {"abc123", "zzz"}
\* req.body.videoId: a video id, or "" when the field is missing
VideoInputs == VideoIds \cup {""}
\* video ids the media resolver does not know
NotFoundIds == {"zzz"}
\* texts the summarizer may answer with, as their lines (split on "\n")
SummaryTexts == {<<"p1", " ", " p2 ">>}

Slots == 1..MaxJobs
Null == "null"
Undefined == "undefined"

QueueVariants == {"openai", "assembly", "chunks"}
Variants == QueueVariants \cup {"status"}
Schemas == {"tracked", "unique"}

\* ------------------------------------------------------------ error text
ErrRequired == "Video ID is required"
ErrDuplicate == "Flashcards for this video already exist."
ErrStart == "Failed to start processing."
ErrDetails == "Failed to fetch video details."
ErrDownload == "download failed"
ErrSplit == "ffmpeg failed"
ErrOpen == "ENOENT: no such file or directory, open"
ErrUnlink == "ENOENT: no such file or directory, unlink"
ErrTranscribe == "transcription request failed"
ErrAssembly == "AssemblyAI transcription failed."
ErrPoll == "transcript status request failed"
ErrSummarize == "summarization request failed"
ErrValidation == "ValidationError: description is required"
ErrDupKey == "E11000 duplicate key error: videoId"
ErrNoDoc == "DocumentNotFoundError"

VARIABLES variant, schema, store, clock, queue, slot, files, deletes, reply, sum

vars == <<variant, schema, store, clock, queue, slot, files, deletes, reply, sum>>

\* --------------------------------------------------------- local storage
AudioPath(v) == IF v = "abc123" THEN "temp/abc123.mp3" ELSE "temp/zzz.mp3"

\* output pattern chunk-%03d.mp3, numbered from 0
ChunkPath(k) == IF k = 1 THEN "temp/chunks/chunk-000.mp3"
                ELSE IF k = 2 THEN "temp/chunks/chunk-001.mp3"
                ELSE IF k = 3 THEN "temp/chunks/chunk-002.mp3"
                ELSE "temp/chunks/chunk-003.mp3"

ChunkPaths == {ChunkPath(k) : k \in 1..MaxChunks}
Paths == {AudioPath(v) : v \in VideoIds} \cup ChunkPaths

\* --------------------------------------------------------------- queries
\* a filter on the videoId alone
MatchingAnyOwner(u, v) == {r \in store : r.videoId = v}

Matching(u, v) == {r \in store : r.videoId = v /\ r.userId = u}

\* findOne that treats a failed record as absent
FindOneIgnoringFailed(u, v) ==
  LET m == {r \in Matching(u, v) : r.status # "failed"}
  IN  IF m = {} THEN {} ELSE {CHOOSE r \in m : \A o \in m : r.id <= o.id}

FindOne(u, v) ==
  LET m == Matching(u, v)
  IN  IF m = {} THEN {} ELSE {CHOOSE r \in m : \A o \in m : r.id <= o.id}

FindById(id) == {r \in store : r.id = id}

\* ------------------------------------------------------------ flashcards
Trim(line) == IF line = " " THEN ""
              ELSE IF line = " p2 " THEN "p2"
              ELSE line

NonBlank(line) == Trim(line) # ""

FilterLines(lines) == SelectSeq(lines, NonBlank)

TrimLines(lines) == [k \in 1..Len(lines) |-> Trim(lines[k])]

\* ------------------------------------------------------- media resolver
TitleOf(v) == IF v = "abc123" THEN "Intro to X" ELSE "Other"
ThumbOf(v) == IF v = "abc123" THEN "thumb-abc123" ELSE "thumb-other"
DescOf(v) == IF v = "abc123" THEN "desc-abc123" ELSE "No description available"

\* the description the worker hands to the model constructor
WorkerDescription(v) == IF variant \in {"openai", "status"} THEN DescOf(v) ELSE Undefined

\* ------------------------------------------------------- job record store
NewVideo(id, u, v, desc, cards) ==
  [id |-> id, userId |-> u, videoId |-> v,
   title |-> TitleOf(v), description |-> desc, thumbnail |-> ThumbOf(v),
   flashcards |-> cards,
   status |-> IF schema = "tracked" THEN "pending" ELSE Undefined,
   error |-> IF schema = "tracked" THEN Null ELSE Undefined,
   createdAt |-> clock + 1]

\* document validation, then the unique index of the collection
InsertError(doc) ==
  IF Undefined \in {doc.videoId, doc.title, doc.description, doc.thumbnail, doc.userId}
    THEN ErrValidation
  ELSE IF schema = "unique" /\ \E r \in store : r.videoId = doc.videoId
    THEN ErrDupKey
  ELSE Null

\* ------------------------------------------------------------------ queue
\* flashcardsQueue.add is called without options: one attempt, no backoff
Attempts == 1

\* no GET or DELETE request has been answered
NoReply ==
  [userId |-> Null, method |-> Null, path |-> <<>>, query |-> "", route |-> <<>>,
   status |-> 0, error |-> Null, videos |-> <<>>]

\* summarizeTranscription has not been called
NoSum ==
  [pc |-> "idle", length |-> 0, chunks |-> <<>>, calls |-> <<>>,
   summarizedChunks |-> <<>>, flashcards |-> <<>>]

InitSlot ==
  [pc |-> "idle", userId |-> Null, videoId |-> Null, resp |-> Null,
   outcome |-> Null, err |-> Null, attemptsMade |-> 0,
   chunks |-> <<>>, transcript |-> <<>>, cards |-> <<>>]

WorkerPcs == {"fetch", "download", "split", "transcribe", "poll", "summarize", "save", "unlink"}

WorkerBusy == \E j \in Slots : slot[j].pc \in WorkerPcs

Init ==
  /\ variant \in Variants
  /\ schema \in Schemas
  /\ variant = "status" => schema = "tracked"
  /\ store = {}
  /\ clock = 0
  /\ queue = <<>>
  /\ slot = [i \in Slots |-> InitSlot]
  /\ files = [p \in Paths |-> 0]
  /\ deletes = 0
  /\ reply = NoReply
  /\ sum = NoSum

\* --------------------------------------------------- POST /generate
\* request received: body parsed, missing videoId answered at once.
\* Requests take the slots in order of arrival; owners are interchangeable,
\* so the first request is taken to come from u1.
\* a handler without the check of req.body.videoId
SubmitUnchecked(i) ==
  /\ slot[i].pc = "idle"
  /\ \E u \in Owners, v \in VideoInputs :
       /\ \A j \in Slots : j < i => slot[j].pc # "idle"
       /\ i = 1 => u = "u1"
       /\ slot' = [slot EXCEPT ![i] = [@ EXCEPT !.pc = "findOne", !.userId = u, !.videoId = v]]
       /\ UNCHANGED <<sum, reply, deletes, variant, schema, store, clock, queue, files>>

Submit(i) ==
  /\ slot[i].pc = "idle"
  /\ \E u \in Owners, v \in VideoInputs :
       /\ \A j \in Slots : j < i => slot[j].pc # "idle"
       /\ i = 1 => u = "u1"
       /\ slot' = [slot EXCEPT ![i] =
             IF v = ""
               THEN [@ EXCEPT !.pc = "rejected", !.userId = u, !.videoId = v,
                              !.resp = "400 required", !.err = ErrRequired]
               ELSE [@ EXCEPT !.pc = "findOne", !.userId = u, !.videoId = v]]
       /\ UNCHANGED <<sum, reply, deletes, variant, schema, store, clock, queue, files>>

\* await YouTubeVideo.findOne({ videoId, userId })
CheckExisting(i) ==
  /\ slot[i].pc = "findOne"
  /\ slot' = [slot EXCEPT ![i] =
        IF FindOne(slot[i].userId, slot[i].videoId) # {}
          THEN [@ EXCEPT !.pc = "rejected", !.resp = "400 duplicate", !.err = ErrDuplicate]
          ELSE [@ EXCEPT !.pc = IF variant = "status" THEN "create" ELSE "add"]]
  /\ UNCHANGED <<sum, reply, deletes, variant, schema, store, clock, queue, files>>

\* status variant: await youtubeDl(url, { dumpSingleJson }); await
\* newVideo.save(); start the background run; answer
CreateAndStart(i) ==
  /\ variant = "status"
  /\ slot[i].pc = "create"
  /\ LET doc == NewVideo(i, slot[i].userId, slot[i].videoId, DescOf(slot[i].videoId), <<>>)
     IN  IF slot[i].videoId \notin NotFoundIds /\ InsertError(doc) = Null
           THEN /\ store' = store \cup {doc}
                /\ clock' = clock + 1
                /\ slot' = [slot EXCEPT ![i] = [@ EXCEPT !.pc = "load", !.resp = "200"]]
           ELSE /\ slot' = [slot EXCEPT ![i] =
                              [@ EXCEPT !.pc = "rejected", !.resp = "500", !.err = ErrStart]]
                /\ UNCHANGED <<store, clock>>
  /\ UNCHANGED <<sum, reply, deletes, variant, schema, queue, files>>

\* queue variants: await flashcardsQueue.add("generateFlashcards", ...); answer
Enqueue(i) ==
  /\ variant \in QueueVariants
  /\ slot[i].pc = "add"
  /\ queue' = Append(queue, i)
  /\ slot' = [slot EXCEPT ![i] = [@ EXCEPT !.pc = "queued", !.resp = "200"]]
  /\ UNCHANGED <<sum, reply, deletes, variant, schema, store, clock, files>>

\* --------------------------------------------------- DELETE /:videoId
DeleteVideo(u, v) ==
  /\ deletes < MaxDeletes
  /\ deletes' = IF FindOne(u, v) = {} THEN deletes ELSE deletes + 1
  /\ store' = store \ FindOne(u, v)
  /\ UNCHANGED <<sum, reply, variant, schema, clock, queue, slot, files>>

\* --------------------------------------------------- stored-document writes
SetStatus(id, st) ==
  {IF r.id = id THEN [r EXCEPT !.status = st] ELSE r : r \in store}

\* an update addressed by videoId instead of by the document id
SetCompletedByVideoId(id, cards) ==
  {IF \E o \in store : o.id = id /\ o.videoId = r.videoId
     THEN [r EXCEPT !.status = "completed", !.flashcards = cards] ELSE r : r \in store}

SetCompleted(id, cards) ==
  {IF r.id = id THEN [r EXCEPT !.status = "completed", !.flashcards = cards] ELSE r : r \in store}

\* a catch block that records the message without touching the status
SetErrorOnly(id, msg) ==
  {IF r.id = id THEN [r EXCEPT !.error = msg] ELSE r : r \in store}

SetFailed(id, msg) ==
  {IF r.id = id THEN [r EXCEPT !.status = "failed", !.error = msg] ELSE r : r \in store}

\* --------------------------------------------------- an exception in a run
\* queue variants: the processor rethrows, the queue counts the attempt and
\* either schedules the job again or marks it failed;
\* status variant: control passes to the catch block
Thrown(s, msg) ==
  LET t == [s EXCEPT !.err = msg, !.chunks = <<>>, !.transcript = <<>>, !.cards = <<>>]
  IN  IF variant = "status"
        THEN [t EXCEPT !.pc = "catchFind"]
        ELSE IF s.attemptsMade + 1 < Attempts
          THEN [t EXCEPT !.pc = "queued", !.attemptsMade = @ + 1]
          ELSE [t EXCEPT !.pc = "done", !.attemptsMade = @ + 1, !.outcome = "failed"]

\* the slot after a step, and the queue with a rescheduled job appended
Step(i, ns) ==
  /\ slot' = [slot EXCEPT ![i] = ns]
  /\ queue' = IF ns.pc = "queued" THEN Append(queue, i) ELSE queue

\* --------------------------------------------------- queue worker
\* the single Worker (concurrency 1) takes the oldest waiting job
Take(i) ==
  /\ variant \in QueueVariants
  /\ queue # <<>>
  /\ Head(queue) = i
  /\ ~WorkerBusy
  /\ queue' = Tail(queue)
  /\ slot' = [slot EXCEPT ![i] = [@ EXCEPT !.pc = "fetch"]]
  /\ UNCHANGED <<sum, reply, deletes, variant, schema, store, clock, files>>

\* oembed request (and the watch page in the openai variant)
FetchVideoDetails(i) ==
  /\ variant \in QueueVariants
  /\ slot[i].pc = "fetch"
  /\ LET s == slot[i]
     IN  IF s.videoId \in NotFoundIds
           THEN Step(i, Thrown(s, ErrDetails))
           ELSE Step(i, [s EXCEPT !.pc = "download"])
  /\ UNCHANGED <<sum, reply, deletes, variant, schema, store, clock, files>>

\* --------------------------------------------------- status variant run
\* const video = await YouTubeVideo.findById(videoId); if (!video) return;
LoadVideo(i) ==
  /\ variant = "status"
  /\ slot[i].pc = "load"
  /\ slot' = [slot EXCEPT ![i] =
        IF FindById(i) = {} THEN [@ EXCEPT !.pc = "done", !.outcome = "returned"]
        ELSE [@ EXCEPT !.pc = "mark"]]
  /\ UNCHANGED <<sum, reply, deletes, variant, schema, store, clock, queue, files>>

\* video.status = "transcribing"; await video.save();
MarkTranscribing(i) ==
  /\ variant = "status"
  /\ slot[i].pc = "mark"
  /\ IF FindById(i) = {}
       THEN /\ Step(i, Thrown(slot[i], ErrNoDoc))
            /\ UNCHANGED store
       ELSE /\ store' = SetStatus(i, "transcribing")
            /\ Step(i, [slot[i] EXCEPT !.pc = "stream"])
  /\ UNCHANGED <<sum, reply, deletes, variant, schema, clock, files>>

\* how the download of the status variant can end: the writer finishes;
\* the GET or the writer fails, which rejects; or the response stream fails
\* after the GET has returned.  pipe() passes no error of its source on to
\* the writer, and the promise listens to the writer only, so in the last
\* case it is never settled
StreamEnds == {"finish", "reject", "source error"}

\* await youtubeDl(url, { extractAudio, getUrl }); createWriteStream creates
\* the file; the response stream is piped into it and may fail
StreamAudio(i) ==
  /\ variant = "status"
  /\ slot[i].pc = "stream"
  /\ \E urlOk \in BOOLEAN, end \in StreamEnds :
       /\ LET path == AudioPath(slot[i].videoId)
          IN  IF ~urlOk
                THEN /\ Step(i, Thrown(slot[i], ErrDownload))
                     /\ UNCHANGED files
                ELSE /\ files' = [files EXCEPT ![path] = i]
                     /\ IF end = "finish" THEN Step(i, [slot[i] EXCEPT !.pc = "transcribe"])
                        ELSE IF end = "reject" THEN Step(i, Thrown(slot[i], ErrDownload))
                        ELSE Step(i, [slot[i] EXCEPT !.pc = "stalled"])
       /\ UNCHANGED <<sum, reply, deletes, variant, schema, store, clock>>

\* --------------------------------------------------- queue worker: download
\* youtubedl writes temp/<videoId>.mp3; no file when it fails
DownloadAudio(i) ==
  /\ variant \in QueueVariants
  /\ slot[i].pc = "download"
  /\ \E ok \in BOOLEAN :
       /\ LET path == AudioPath(slot[i].videoId)
          IN  IF ok
                THEN /\ files' = [files EXCEPT ![path] = i]
                     /\ Step(i, [slot[i] EXCEPT !.pc = IF variant = "chunks" THEN "split"
                                                       ELSE "transcribe"])
                ELSE /\ Step(i, Thrown(slot[i], ErrDownload))
                     /\ UNCHANGED files
       /\ UNCHANGED <<sum, reply, deletes, variant, schema, store, clock>>

\* --------------------------------------------------- chunks variant
\* fs.readdir of temp/chunks: every .mp3 present, in name order
ReadChunkDir(f) ==
  SelectSeq([k \in 1..MaxChunks |-> ChunkPath(k)], LAMBDA p : f[p] # 0)

\* ffmpeg writes n segments of the audio, then the directory is listed
SplitAudio(i) ==
  /\ variant = "chunks"
  /\ slot[i].pc = "split"
  /\ \E n \in 1..MaxChunks, ok \in BOOLEAN :
       /\ IF ok
            THEN LET f == [p \in Paths |->
                             IF \E k \in 1..n : p = ChunkPath(k) THEN i ELSE files[p]]
                 IN  /\ files' = f
                     /\ Step(i, [slot[i] EXCEPT !.pc = "transcribe", !.chunks = ReadChunkDir(f)])
            ELSE /\ Step(i, Thrown(slot[i], ErrSplit))
                 /\ UNCHANGED files
       /\ UNCHANGED <<sum, reply, deletes, variant, schema, store, clock>>

\* --------------------------------------------------- transcription
\* openai / status: one whisper call on the audio file (the status variant
\* hands the text straight to the summarizer);
\* assembly: upload and start of the transcript job;
\* chunks: one whisper call per listed chunk, the chunk is removed afterwards
Transcribe(i) ==
  /\ slot[i].pc = "transcribe"
  /\ \E ok \in BOOLEAN :
       /\ LET s == slot[i]
              path == AudioPath(s.videoId)
          IN  IF variant = "chunks"
                THEN LET c == Head(s.chunks)
                     IN  IF ok
                           THEN /\ files' = [files EXCEPT ![c] = 0]
                                /\ Step(i, [s EXCEPT !.transcript = Append(@, files[c]),
                                                     !.chunks = Tail(@),
                                                     !.pc = IF Tail(s.chunks) = <<>>
                                                              THEN "summarize" ELSE "transcribe"])
                           ELSE /\ Step(i, Thrown(s, ErrTranscribe))
                                /\ UNCHANGED files
                ELSE /\ UNCHANGED files
                     /\ IF files[path] = 0
                          THEN Step(i, Thrown(s, ErrOpen))
                        ELSE IF ~ok
                          THEN Step(i, Thrown(s, ErrTranscribe))
                        ELSE IF variant = "status"
                          THEN Step(i, [s EXCEPT !.pc = "complete"])
                        ELSE Step(i, [s EXCEPT !.transcript = <<files[path]>>,
                                               !.pc = IF variant = "assembly" THEN "poll"
                                                      ELSE "summarize"])
       /\ UNCHANGED <<sum, reply, deletes, variant, schema, store, clock>>

\* assembly: one pass of the while (true) poll loop; the awaited GET may
\* reject (no connection, a status outside 2xx)
PollStatuses == {"processing", "completed", "failed"}

PollTranscript(i) ==
  /\ variant = "assembly"
  /\ slot[i].pc = "poll"
  /\ \E ok \in BOOLEAN, st \in PollStatuses, text \in SummaryTexts, isArray \in BOOLEAN :
       /\ IF ~ok
            THEN Step(i, Thrown(slot[i], ErrPoll))
          ELSE IF st = "completed"
            THEN Step(i, [slot[i] EXCEPT
                            !.cards = IF isArray THEN text ELSE TrimLines(text),
                            !.transcript = <<>>,
                            !.pc = "save"])
          ELSE IF st = "failed"
            THEN Step(i, Thrown(slot[i], ErrAssembly))
          ELSE Step(i, slot[i])
       /\ UNCHANGED <<sum, reply, deletes, variant, schema, store, clock, files>>

\* --------------------------------------------------- summarization
Summarize(i) ==
  /\ variant \in {"openai", "chunks"}
  /\ slot[i].pc = "summarize"
  /\ \E ok \in BOOLEAN, text \in SummaryTexts :
       /\ LET s == slot[i]
          IN  IF ok THEN Step(i, [s EXCEPT !.cards = FilterLines(text), !.transcript = <<>>,
                                           !.pc = "save"])
              ELSE Step(i, Thrown(s, ErrSummarize))
       /\ UNCHANGED <<sum, reply, deletes, variant, schema, store, clock, files>>

\* --------------------------------------------------- store write
\* queue variants: new YouTubeVideo({...}).save()
SaveVideo(i) ==
  /\ variant \in QueueVariants
  /\ slot[i].pc = "save"
  /\ LET s == slot[i]
         doc == NewVideo(i, s.userId, s.videoId, WorkerDescription(s.videoId), s.cards)
     IN  IF InsertError(doc) = Null
           THEN /\ store' = store \cup {doc}
                /\ clock' = clock + 1
                /\ Step(i, [s EXCEPT !.pc = "unlink"])
           ELSE /\ Step(i, Thrown(s, InsertError(doc)))
                /\ UNCHANGED <<store, clock>>
  /\ UNCHANGED <<sum, reply, deletes, variant, schema, files>>

\* status variant: await openai.chat.completions.create(...);
\* video.flashcards = ...; video.status = "completed"; await video.save()
SummarizeAndComplete(i) ==
  /\ variant = "status"
  /\ slot[i].pc = "complete"
  /\ \E ok \in BOOLEAN, text \in SummaryTexts :
       /\ IF ~ok
            THEN /\ Step(i, Thrown(slot[i], ErrSummarize))
                 /\ UNCHANGED store
          ELSE IF FindById(i) = {}
            THEN /\ Step(i, Thrown(slot[i], ErrNoDoc))
                 /\ UNCHANGED store
          ELSE /\ store' = SetCompleted(i, FilterLines(text))
               /\ Step(i, [slot[i] EXCEPT !.pc = "unlink"])
       /\ UNCHANGED <<sum, reply, deletes, variant, schema, clock, files>>

\* --------------------------------------------------- cleanup
\* fs.unlinkSync(audioPath), the last statement of the try block
UnlinkAudio(i) ==
  /\ slot[i].pc = "unlink"
  /\ LET s == slot[i]
         path == AudioPath(s.videoId)
     IN  IF files[path] = 0
           THEN /\ Step(i, Thrown(s, ErrUnlink))
                /\ UNCHANGED files
           ELSE /\ files' = [files EXCEPT ![path] = 0]
                /\ Step(i, [s EXCEPT !.pc = "done", !.transcript = <<>>, !.cards = <<>>,
                                     !.outcome = IF variant = "status" THEN "returned"
                                                 ELSE "completed"])
  /\ UNCHANGED <<sum, reply, deletes, variant, schema, store, clock>>

\* --------------------------------------------------- status variant catch
\* const video = await YouTubeVideo.findById(videoId);
CatchFind(i) ==
  /\ variant = "status"
  /\ slot[i].pc = "catchFind"
  /\ slot' = [slot EXCEPT ![i] =
        IF FindById(i) = {} THEN [@ EXCEPT !.pc = "done", !.outcome = "returned", !.err = Null]
        ELSE [@ EXCEPT !.pc = "catchSave"]]
  /\ UNCHANGED <<sum, reply, deletes, variant, schema, store, clock, queue, files>>

\* video.status = "failed"; video.error = error.message; await video.save();
CatchSave(i) ==
  /\ variant = "status"
  /\ slot[i].pc = "catchSave"
  /\ store' = SetFailed(i, slot[i].err)
  /\ slot' = [slot EXCEPT ![i] =
        [@ EXCEPT !.pc = "done", !.err = Null,
                  !.outcome = IF FindById(i) = {} THEN "unhandled rejection" ELSE "returned"]]
  /\ UNCHANGED <<sum, reply, deletes, variant, schema, clock, queue, files>>

\* --------------------------------------------------- specification
Next ==
  \/ \E i \in Slots : Submit(i)
  \/ \E i \in Slots : CheckExisting(i)
  \/ \E i \in Slots : CreateAndStart(i)
  \/ \E i \in Slots : Enqueue(i)
  \/ \E u \in Owners, v \in VideoIds : DeleteVideo(u, v)
  \/ \E i \in Slots : Take(i)
  \/ \E i \in Slots : FetchVideoDetails(i)
  \/ \E i \in Slots : LoadVideo(i)
  \/ \E i \in Slots : MarkTranscribing(i)
  \/ \E i \in Slots : StreamAudio(i)
  \/ \E i \in Slots : DownloadAudio(i)
  \/ \E i \in Slots : SplitAudio(i)
  \/ \E i \in Slots : Transcribe(i)
  \/ \E i \in Slots : PollTranscript(i)
  \/ \E i \in Slots : Summarize(i)
  \/ \E i \in Slots : SaveVideo(i)
  \/ \E i \in Slots : SummarizeAndComplete(i)
  \/ \E i \in Slots : UnlinkAudio(i)
  \/ \E i \in Slots : CatchFind(i)
  \/ \E i \in Slots : CatchSave(i)

Spec == Init /\ [][Next]_vars

\* a step of the background run of slot i (status variant)
RunStep(i) ==
  \/ LoadVideo(i)
  \/ MarkTranscribing(i)
  \/ StreamAudio(i)
  \/ Transcribe(i)
  \/ SummarizeAndComplete(i)
  \/ UnlinkAudio(i)
  \/ CatchFind(i)
  \/ CatchSave(i)

\* every awaited call of a run returns or throws, and the event loop then
\* resumes the run
SpecFair == Spec /\ \A i \in Slots : WF_vars(RunStep(i))

\* ================================================================
\* Requests that read or delete stored records.  The collection outlives a
\* run of the server, so these handlers are taken from a store that already
\* holds the records of earlier accepted store writes.

\* ---------------------------------------------------------------- bounds
MaxRecords == 3

\* video ids of stored records, and search strings of a request
SeedIds == {"abc123", "def456"}
Queries == {"", " ", "TO"}

\* a record as an accepted store write of an earlier run left it
Seed(k, u, v) ==
  [NewVideo(k, u, v, DescOf(v), FilterLines(CHOOSE t \in SummaryTexts : TRUE))
     EXCEPT !.createdAt = k,
            !.status = IF variant = "status" THEN "completed" ELSE @]

\* the stores after n such writes; owners are interchangeable, so the first
\* record is taken to be of u1; the unique index admits a videoId once
SeedStores(n) ==
  {st \in {{Seed(k, own[k], vid[k]) : k \in 1..n} :
              own \in {f \in [1..n -> Owners] : n >= 1 => f[1] = "u1"},
              vid \in [1..n -> SeedIds]} :
     schema = "unique" => \A a, b \in st : a.videoId = b.videoId => a = b}

InitQ ==
  /\ variant \in Variants
  /\ schema \in Schemas
  /\ variant = "status" => schema = "tracked"
  /\ clock \in 0..MaxRecords
  /\ store \in SeedStores(clock)
  /\ queue = <<>>
  /\ slot = [i \in Slots |-> InitSlot]
  /\ files = [p \in Paths |-> 0]
  /\ deletes = 0
  /\ reply = NoReply
  /\ sum = NoSum

\* ------------------------------------------------------------- strings
Chars(s) ==
  IF s = "Intro to X" THEN <<"I", "n", "t", "r", "o", " ", "t", "o", " ", "X">>
  ELSE IF s = "Other" THEN <<"O", "t", "h", "e", "r">>
  ELSE IF s = "TO" THEN <<"T", "O">>
  ELSE IF s = " " THEN <<" ">>
  ELSE <<>>

Lower(c) == IF c = "I" THEN "i" ELSE IF c = "O" THEN "o" ELSE IF c = "T" THEN "t"
            ELSE IF c = "X" THEN "x" ELSE c

\* { $regex: q, $options: "i" } for a q without regex operators
RegexMatch(title, q) ==
  LET t == Chars(title)
      w == Chars(q)
  IN  \E k \in 0..(Len(t) - Len(w)) : \A j \in 1..Len(w) : Lower(t[k + j]) = Lower(w[j])

\* ------------------------------------------------------------- cursors
RECURSIVE SortCreatedAtDesc(_)
SortCreatedAtDesc(S) ==
  IF S = {} THEN <<>>
  ELSE LET r == CHOOSE x \in S : \A y \in S : y.createdAt <= x.createdAt
       IN  <<r>> \o SortCreatedAtDesc(S \ {r})

\* find() without sort: the records in the order they were inserted
RECURSIVE NaturalOrder(_)
NaturalOrder(S) ==
  IF S = {} THEN <<>>
  ELSE LET r == CHOOSE x \in S : \A y \in S : x.id <= y.id
       IN  <<r>> \o NaturalOrder(S \ {r})

Limit(seq, n) == SubSeq(seq, 1, IF Len(seq) < n THEN Len(seq) ELSE n)

\* ------------------------------------------------------------- routing
\* the GET and DELETE routes of the router, in the order of registration
GetRoutes ==
  IF variant = "status"
    THEN << <<"status", ":videoId">>, <<"saved-videos">>, <<":videoId">> >>
  ELSE IF variant = "assembly"
    THEN << <<"saved-videos">>, <<":videoId">>, <<"search">>, <<"search-suggestions">> >>
  ELSE << <<"saved-videos">>, <<":videoId">> >>

DeleteRoutes ==
  IF variant = "status" THEN << <<"delete", ":videoId">> >>
  ELSE IF variant = "openai" THEN << >>
  ELSE << <<":videoId">> >>

\* a route matches a path segment by segment; a parameter takes any segment
Matches(route, path) ==
  /\ Len(route) = Len(path)
  /\ \A k \in 1..Len(route) : route[k] = ":videoId" \/ route[k] = path[k]

\* the first registered route that matches, <<>> when none does
Route(routes, path) ==
  LET hits == {k \in 1..Len(routes) : Matches(routes[k], path)}
  IN  IF hits = {} THEN <<>>
      ELSE routes[CHOOSE k \in hits : \A h \in hits : k <= h]

\* req.params.videoId
Param(route, path) == path[CHOOSE k \in 1..Len(route) : route[k] = ":videoId"]

\* ------------------------------------------------------------- handlers
Answer(st, err, videos) == [status |-> st, error |-> err, videos |-> videos]

\* no route of the router matched
NoRoute == Answer(404, "Cannot serve the request", <<>>)

GetStatus(u, v) ==
  IF FindOne(u, v) = {} THEN Answer(404, "Video not found.", <<>>)
  ELSE LET r == CHOOSE x \in FindOne(u, v) : TRUE
       IN  Answer(200, Null, <<[status |-> r.status, error |-> r.error,
                                flashcards |-> r.flashcards]>>)

\* the list query without its sort
GetSavedVideosUnsorted(u) ==
  Answer(200, Null, NaturalOrder({r \in store : r.userId = u}))

GetSavedVideos(u) ==
  Answer(200, Null, SortCreatedAtDesc({r \in store : r.userId = u}))

GetVideo(u, v) ==
  IF FindOne(u, v) = {} THEN Answer(404, "Video not found", <<>>)
  ELSE Answer(200, Null, <<CHOOSE x \in FindOne(u, v) : TRUE>>)

FindOneAndDelete(u, v) ==
  IF FindOne(u, v) = {} THEN Answer(404, "Video not found", <<>>)
  ELSE Answer(200, Null, <<>>)

Search(u, q) ==
  LET videos == NaturalOrder({r \in store : RegexMatch(r.title, q) /\ r.userId = u})
  IN  IF q = "" \/ Trim(q) = "" THEN Answer(400, "Search query cannot be empty.", <<>>)
      ELSE IF Len(videos) = 0 THEN Answer(404, "No videos found.", <<>>)
      ELSE Answer(200, Null, videos)

SearchSuggestions(u, q) ==
  IF q = "" THEN Answer(400, "Query parameter is required", <<>>)
  ELSE Answer(200, Null,
              Limit(NaturalOrder({r \in store : RegexMatch(r.title, q) /\ r.userId = u}), 10))

\* ------------------------------------------------------------- requests
RequestIds == SeedIds \cup {"zzz"}

Requests ==
  {[method |-> "GET", path |-> <<"saved-videos">>, query |-> ""]}
    \cup {[method |-> m, path |-> <<v>>, query |-> ""] :
            m \in {"GET", "DELETE"}, v \in RequestIds}
    \cup {[method |-> "GET", path |-> <<"status", v>>, query |-> ""] : v \in RequestIds}
    \cup {[method |-> "DELETE", path |-> <<"delete", v>>, query |-> ""] : v \in RequestIds}
    \cup {[method |-> "GET", path |-> <<w>>, query |-> q] :
            w \in {"search", "search-suggestions"}, q \in Queries}

\* the router serves one GET or DELETE request of owner u
Request(u, req) ==
  LET rt == Route(IF req.method = "GET" THEN GetRoutes ELSE DeleteRoutes, req.path)
      ans == IF rt = <<>> THEN NoRoute
             ELSE IF req.method = "DELETE" THEN FindOneAndDelete(u, Param(rt, req.path))
             ELSE IF rt = <<"status", ":videoId">> THEN GetStatus(u, Param(rt, req.path))
             ELSE IF rt = <<"saved-videos">> THEN GetSavedVideos(u)
             ELSE IF rt = <<":videoId">> THEN GetVideo(u, Param(rt, req.path))
             ELSE IF rt = <<"search">> THEN Search(u, req.query)
             ELSE SearchSuggestions(u, req.query)
  IN  /\ reply' = [userId |-> u, method |-> req.method, path |-> req.path,
                   query |-> req.query, route |-> rt, status |-> ans.status,
                   error |-> ans.error, videos |-> ans.videos]
      /\ store' = IF req.method = "DELETE" /\ rt # <<>>
                    THEN store \ FindOne(u, Param(rt, req.path))
                    ELSE store
      /\ UNCHANGED <<sum, variant, schema, clock, queue, slot, files, deletes>>

NextQ == \E u \in Owners, req \in Requests : Request(u, req)

SpecQ == InitQ /\ [][NextQ]_vars

\* ================================================================
\* summarizeTranscription and the parsing of its result (chunks variant).
\* A text is the sequence of its lines; a line of the answer to a chunk
\* carries the offset of that chunk.

\* const maxInputLength = 3500
MaxInputLength == 3500

\* ---------------------------------------------------------------- bounds
\* the longest transcription is MaxSlices * MaxInputLength characters
MaxSlices == 3

TranscriptLengths ==
  {0, 1, 4000} \cup {k * MaxInputLength : k \in 1..MaxSlices}
         \cup {k * MaxInputLength + 1 : k \in 1..(MaxSlices - 1)}

\* the lines of an answer of the chat model
SummaryReplies == {<<"p1">>, <<"p1", " ", " p2 ">>, <<" ">>, <<"", " p2 ", "">>}

\* a split that keeps the full slices only and drops the remainder
RECURSIVE SliceFullOnly(_, _)
SliceFullOnly(i, len) ==
  IF i + MaxInputLength <= len
    THEN <<[from |-> i, to |-> i + MaxInputLength]>> \o SliceFullOnly(i + MaxInputLength, len)
    ELSE <<>>

\* transcription.slice(i, i + maxInputLength) for i = 0, maxInputLength, ...
RECURSIVE SliceFrom(_, _)
SliceFrom(i, len) ==
  IF i < len
    THEN <<[from |-> i, to |-> IF i + MaxInputLength < len THEN i + MaxInputLength ELSE len]>>
           \o SliceFrom(i + MaxInputLength, len)
    ELSE <<>>

\* summaryResponse.choices[0].message.content for a chunk
Reply(chunk, lines) == [k \in 1..Len(lines) |-> [of |-> chunk.from, s |-> lines[k]]]

LTrim(str) == IF str = " p2 " THEN "p2 " ELSE IF str = " " THEN "" ELSE str
RTrim(str) == IF str = " p2 " THEN " p2" ELSE IF str = "p2 " THEN "p2"
              ELSE IF str = " " THEN "" ELSE str

\* String.prototype.trim on a text of several lines: blank lines at both
\* ends go, the first line loses its leading and the last its trailing space
RECURSIVE DropBlankHead(_)
DropBlankHead(text) ==
  IF text # <<>> /\ ~NonBlank(Head(text).s) THEN DropBlankHead(Tail(text)) ELSE text

RECURSIVE DropBlankEnd(_)
DropBlankEnd(text) ==
  IF text # <<>> /\ ~NonBlank(text[Len(text)].s)
    THEN DropBlankEnd(SubSeq(text, 1, Len(text) - 1))
    ELSE text

TrimText(text) ==
  LET t == DropBlankEnd(DropBlankHead(text))
      n == Len(t)
  IN  IF n = 0 THEN <<[of |-> Head(text).of, s |-> ""]>>
      ELSE [k \in 1..n |->
             [t[k] EXCEPT !.s = IF k = 1 /\ k = n THEN RTrim(LTrim(@))
                                ELSE IF k = 1 THEN LTrim(@)
                                ELSE IF k = n THEN RTrim(@)
                                ELSE @]]

RECURSIVE Concat(_)
Concat(texts) == IF texts = <<>> THEN <<>> ELSE Head(texts) \o Concat(Tail(texts))

\* a join that puts the last answer first
JoinReversed(texts) ==
  IF texts = <<>> THEN <<[of |-> 0, s |-> ""]>>
  ELSE Concat([k \in 1..Len(texts) |-> texts[Len(texts) + 1 - k]])

\* summarizedChunks.join("\n"), as the lines of the joined text; the join of
\* no text is the empty string, which is one empty line
Join(texts) ==
  IF texts = <<>> THEN <<[of |-> 0, s |-> ""]>> ELSE Concat(texts)

InitT ==
  /\ variant = "chunks"
  /\ schema \in Schemas
  /\ store = {}
  /\ clock = 0
  /\ queue = <<>>
  /\ slot = [i \in Slots |-> InitSlot]
  /\ files = [p \in Paths |-> 0]
  /\ deletes = 0
  /\ reply = NoReply
  /\ sum \in {[NoSum EXCEPT !.pc = "slice", !.length = len] : len \in TranscriptLengths}

\* the first for loop of summarizeTranscription
SliceTranscription ==
  /\ sum.pc = "slice"
  /\ sum' = [sum EXCEPT !.chunks = SliceFrom(0, sum.length),
                        !.pc = IF SliceFrom(0, sum.length) = <<>> THEN "parse" ELSE "loop"]
  /\ UNCHANGED <<variant, schema, store, clock, queue, slot, files, deletes, reply>>

\* one pass of for (const chunk of transcriptionChunks): the awaited call
\* and the push of its trimmed answer
SummarizeChunk(ok, lines) ==
  /\ sum.pc = "loop"
  /\ LET k == Len(sum.summarizedChunks) + 1
         chunk == sum.chunks[k]
     IN  sum' = IF ok
                  THEN [sum EXCEPT !.calls = Append(@, chunk),
                                   !.summarizedChunks = Append(@, TrimText(Reply(chunk, lines))),
                                   !.pc = IF k = Len(sum.chunks) THEN "parse" ELSE "loop"]
                  ELSE [sum EXCEPT !.calls = Append(@, chunk), !.pc = "thrown"]
  /\ UNCHANGED <<variant, schema, store, clock, queue, slot, files, deletes, reply>>

\* return summarizedChunks.join("\n"); then, in the worker,
\* summarizedTranscription.split("\n").filter((line) => line.trim()).map(...)
GenerateFlashcards ==
  /\ sum.pc = "parse"
  /\ sum' = [sum EXCEPT !.flashcards = SelectSeq(Join(sum.summarizedChunks),
                                                  LAMBDA l : NonBlank(l.s)),
                        !.pc = "done"]
  /\ UNCHANGED <<variant, schema, store, clock, queue, slot, files, deletes, reply>>

NextT ==
  \/ SliceTranscription
  \/ \E ok \in BOOLEAN, lines \in SummaryReplies : SummarizeChunk(ok, lines)
  \/ GenerateFlashcards

SpecT == InitT /\ [][NextT]_vars

\* ================================================================ claims
SamePair(i, j) == slot[i].userId = slot[j].userId /\ slot[i].videoId = slot[j].videoId

HasError(r) == r.error \notin {Null, Undefined}

\* C1: for every (owner, videoId) at most one Job Record exists, and two
\* submissions of the same pair are never both accepted while neither
\* pipeline run has ended (the later one gets the duplicate error).
C1_SecondSubmissionRejected ==
  /\ \A u \in Owners, v \in VideoIds : Cardinality(Matching(u, v)) <= 1
  /\ \A i, j \in Slots :
       (i # j /\ SamePair(i, j) /\ slot[i].resp = "200" /\ slot[j].resp = "200")
         => (slot[i].pc = "done" \/ slot[j].pc = "done")

\* C2: a run whose resolver, download, transcription and summarization all
\* succeeded has its store write accepted: after the write the Job Record of
\* the run exists, carries the generated flashcards and (where the worker
\* sets a status) is completed.
C2_StoreWriteAccepted ==
  [][\A i \in Slots :
       /\ (/\ slot[i].pc = "save"
           /\ slot'[i].pc # "save"
           /\ \A r \in store : r.videoId # slot[i].videoId)
          => \E r \in store' : r.id = i /\ r.flashcards = slot[i].cards
       /\ (/\ slot[i].pc = "complete"
           /\ slot'[i].pc # "complete"
           /\ slot'[i].err # ErrSummarize
           /\ FindById(i) # {})
          => \E r \in store' : /\ r.id = i
                                /\ r.flashcards # <<>>
                                /\ r.status = "completed"]_vars

\* C3: a job given up after the transcription adapter reported "failed" was
\* attempted exactly 5 times and left a Job Record with status failed and the
\* error detail set.
C3_FailedAfterRetryCeiling ==
  \A i \in Slots :
    (slot[i].pc = "done" /\ slot[i].err = ErrAssembly)
      => /\ slot[i].attemptsMade = 5
         /\ \E r \in Matching(slot[i].userId, slot[i].videoId) :
              r.status = "failed" /\ HasError(r)

\* C4: once the media resolver has failed for a submitted videoId, a Job
\* Record of the pair exists with status failed and an error detail, and the
\* job was not retried.
C4_NotFoundRecordedAsFailed ==
  \A i \in Slots :
    (slot[i].pc \in {"done", "rejected"} /\ slot[i].err \in {ErrDetails, ErrStart})
      => /\ slot[i].attemptsMade <= 1
         /\ \E r \in Matching(slot[i].userId, slot[i].videoId) :
              r.status = "failed" /\ HasError(r)

\* C5: after a run has ended, no audio file and no chunk file written by
\* that run is left on local storage.
C5_NoTempFileLeft ==
  \A i \in Slots : slot[i].pc = "done" => \A p \in Paths : files[p] # i

\* C6: a Job Record whose status is completed or failed keeps that status in
\* every later step for as long as it is stored.
C6_TerminalStatusKept ==
  [][\A r \in store : r.status \in {"completed", "failed"}
        => \A q \in store' : q.id = r.id => q.status = r.status]_vars

\* C7: a failed unlink of the temporary audio file never ends up as the
\* error of a Job Record and never makes the queue report the job failed.
C7_UnlinkFailureSwallowed ==
  /\ \A r \in store : r.error # ErrUnlink
  /\ \A i \in Slots : slot[i].err = ErrUnlink => slot[i].outcome # "failed"

\* C8: a submission or a final store write for (B, videoId) is rejected as a
\* duplicate only when B already has a Job Record for that videoId; a
\* record of another owner never causes the rejection.
C8_UniquePerOwner ==
  [][\A i \in Slots :
       /\ (slot[i].pc = "findOne" /\ slot'[i].resp = "400 duplicate")
            => Matching(slot[i].userId, slot[i].videoId) # {}
       /\ (slot[i].pc = "save" /\ slot'[i].err = ErrDupKey)
            => Matching(slot[i].userId, slot[i].videoId) # {}]_vars

C10_PendingRecordOnAccept ==
  [][\A i \in Slots :
       (slot[i].resp = Null /\ slot'[i].resp = "200")
         => \E r \in store' : /\ r.userId = slot[i].userId
                               /\ r.videoId = slot[i].videoId
                               /\ r.status = "pending"]_vars

\* C11: in every reachable state a Job Record whose error field is set has
\* status failed.
C11_ErrorOnlyWhenFailed ==
  \A r \in store : HasError(r) => r.status = "failed"

\* the catch block of a run has stored its error message in the record
C11_Witness ==
  \E i \in Slots : \E r \in FindById(i) :
    /\ slot[i].pc = "done"
    /\ HasError(r)
    /\ r.status = "failed"

\* C12: in every reachable state of the status variant a Job Record with a
\* non-empty flashcards list has status completed.
C12_FlashcardsOnlyWhenCompleted ==
  variant = "status" => \A r \in store : r.flashcards # <<>> => r.status = "completed"

\* a pipeline run of slot i has started and has not ended
Running(i) ==
  slot[i].pc \in WorkerPcs \cup {"load", "mark", "stream", "complete", "catchFind", "catchSave"}

\* C13: at any time at most one pipeline run is in flight for a given
\* (owner, videoId): no run of a pair starts while another run of the same
\* pair has not ended.
C13_OneRunPerPair ==
  \A i, j \in Slots : (i # j /\ SamePair(i, j)) => ~(Running(i) /\ Running(j))

\* C14: a run never overwrites, reads or deletes a temporary audio file
\* that was written by another run which is still in flight.
C14_TempFileOwnedByOneRun ==
  [][\A i \in Slots :
       LET p == AudioPath(slot[i].videoId)
       IN  (/\ slot[i].pc \in {"stream", "transcribe", "unlink"}
            /\ slot'[i] # slot[i]
            /\ slot[i].pc = "stream" => files' # files
            /\ files[p] \notin {0, i})
             => ~Running(files[p])]_vars

\* C15: a detail query by owner A answers with a record of A for the
\* requested videoId or, when A has none, with not-found; a delete by A
\* removes nothing but one record of A for that videoId and, when A has
\* none, answers not-found and leaves the store as it was.
C15_DetailAndDeleteScoped ==
  [][LET u == reply'.userId
         v == Param(reply'.route, reply'.path)
         own == {r \in store : r.userId = u /\ r.videoId = v}
     IN  /\ (reply'.method = "GET" /\ reply'.route = <<":videoId">>)
              => /\ own = {} <=> reply'.status = 404
                 /\ own # {} <=> (reply'.status = 200 /\ reply'.videos[1] \in own)
                 /\ store' = store
         /\ (reply'.method = "DELETE" /\ reply'.route # <<>>)
              => /\ store' \subseteq store
                 /\ (store \ store') \subseteq own
                 /\ own = {} <=> (reply'.status = 404 /\ store' = store)
                 /\ own # {} <=> (reply'.status = 200 /\ Cardinality(store \ store') = 1)]_vars

\* owner A deleted the record of a videoId for which another owner has a
\* record too, and the other owner's record is still stored
C15_Witness ==
  /\ reply.method = "DELETE"
  /\ reply.status = 200
  /\ \E r \in store : /\ r.videoId = Param(reply.route, reply.path)
                      /\ r.userId # reply.userId

\* C16: a GET /search request with a non-blank query is answered by the
\* search handler, with the requester's records whose title contains the
\* query case-insensitively.
C16_SearchAnsweredBySearch ==
  (/\ variant = "assembly"
   /\ reply.method = "GET"
   /\ reply.path = <<"search">>
   /\ Trim(reply.query) # "")
    => /\ reply.route = <<"search">>
       /\ {reply.videos[k] : k \in 1..Len(reply.videos)}
            = {r \in store : r.userId = reply.userId /\ RegexMatch(r.title, reply.query)}

\* C17: a submission without a videoId is answered with the required-field
\* error in the step that receives it; that step leaves the store, the
\* queue, the clock and the temp directory as they were, and the request
\* takes no further step (it reaches no collaborator call).
C17_MissingVideoIdChangesNothing ==
  [][\A i \in Slots :
       /\ (slot[i].pc = "idle" /\ slot'[i].pc # "idle" /\ slot'[i].videoId = "")
            => /\ slot'[i].resp = "400 required"
               /\ slot'[i].pc = "rejected"
               /\ slot'[i].attemptsMade = 0
               /\ UNCHANGED <<store, queue, clock, files>>
       /\ (slot[i].videoId = "" /\ slot[i].pc # "idle") => slot'[i] = slot[i]]_vars

\* a submission without videoId was rejected while the record of another
\* submission is stored
C17_Witness ==
  \E i \in Slots : /\ slot[i].resp = "400 required"
                   /\ slot[i].videoId = ""
                   /\ store # {}

\* C18: the answer to a list query holds exactly the stored records of the
\* requester, each once, ordered by creation time from newest to oldest.
C18_ListOwnNewestFirst ==
  (reply.method = "GET" /\ reply.route = <<"saved-videos">>)
    => /\ reply.status = 200
       /\ {reply.videos[k] : k \in 1..Len(reply.videos)}
            = {r \in store : r.userId = reply.userId}
       /\ Len(reply.videos) = Cardinality({r \in store : r.userId = reply.userId})
       /\ \A j, k \in 1..Len(reply.videos) :
            j < k => reply.videos[j].createdAt >= reply.videos[k].createdAt

\* a list query was answered with two records of the requester while the
\* other owner has a record too
C18_Witness ==
  /\ reply.route = <<"saved-videos">>
  /\ Len(reply.videos) >= 2
  /\ \E r \in store : r.userId # reply.userId

\* C20: in every worker variant the flashcards handed to the store write,
\* and the flashcards of every stored record, are the non-blank lines of
\* the summary text in their order; none has blank content.
C20_FlashcardsAreNonBlankLines ==
  /\ \A i \in Slots :
       slot[i].pc = "save"
         => /\ \E text \in SummaryTexts : slot[i].cards = FilterLines(text)
            /\ \A k \in 1..Len(slot[i].cards) : NonBlank(slot[i].cards[k])
  /\ \A r \in store :
       /\ r.flashcards # <<>> => \E text \in SummaryTexts : r.flashcards = FilterLines(text)
       /\ \A k \in 1..Len(r.flashcards) : NonBlank(r.flashcards[k])

\* C19: the summarizer is called once per chunk, in index order, and in the
\* final flashcard list every flashcard taken from the answer to a chunk
\* stands before every flashcard taken from the answer to a later chunk.
C19_ChunkOrderPreserved ==
  /\ Len(sum.calls) <= Len(sum.chunks)
  /\ \A k \in 1..Len(sum.calls) : sum.calls[k] = sum.chunks[k]
  /\ sum.pc \in {"parse", "done"} => sum.calls = sum.chunks
  /\ sum.pc = "done"
       => /\ \A j, k \in 1..Len(sum.flashcards) :
               j < k => sum.flashcards[j].of <= sum.flashcards[k].of
          /\ \A j \in 1..Len(sum.flashcards) :
               \E k \in 1..Len(sum.chunks) :
                 /\ sum.chunks[k].from = sum.flashcards[j].of
                 /\ \E n \in 1..Len(sum.summarizedChunks[k]) :
                      sum.summarizedChunks[k][n] = sum.flashcards[j]

\* a transcription of three chunks was summarized and the flashcard list
\* holds lines of the answers to its first and to its last chunk
C19_Witness ==
  /\ sum.pc = "done"
  /\ Len(sum.chunks) = 3
  /\ \E j, k \in 1..Len(sum.flashcards) :
       /\ sum.flashcards[j].of = sum.chunks[1].from
       /\ sum.flashcards[k].of = sum.chunks[3].from

\* C21: during a run the Job Record has status downloading while the audio
\* is being fetched, transcribing while the transcription call is
\* outstanding and summarizing while the summarization call is outstanding.
C21_StatusFollowsStage ==
  variant = "status"
    => \A i \in Slots : \A r \in FindById(i) :
         /\ slot[i].pc = "stream" => r.status = "downloading"
         /\ slot[i].pc = "transcribe" => r.status = "transcribing"
         /\ slot[i].pc = "complete" => r.status = "summarizing"

\* C22: a transcription of length L is cut into ceil(L / 3500) chunks, each
\* non-empty and at most 3500 characters long, which laid end to end are
\* the transcription from its first to its last character; a
\* summarization that went through made one call per chunk.
C22_ChunkCountAndCover ==
  LET n == Len(sum.chunks)
  IN  sum.pc \notin {"idle", "slice"}
        => /\ n = (sum.length + 3499) \div 3500
           /\ \A k \in 1..n : /\ sum.chunks[k].from < sum.chunks[k].to
                              /\ sum.chunks[k].to - sum.chunks[k].from <= 3500
           /\ \A k \in 1..(n - 1) : sum.chunks[k + 1].from = sum.chunks[k].to
           /\ n > 0 => (sum.chunks[1].from = 0 /\ sum.chunks[n].to = sum.length)
           /\ sum.pc \in {"parse", "done"} => Len(sum.calls) = n

\* a transcription of 4000 characters was summarized with two calls, the
\* second for the 500 characters after the first 3500
C22_Witness ==
  /\ sum.pc = "done"
  /\ sum.length = 4000
  /\ Len(sum.calls) = 2
  /\ sum.calls[2] = [from |-> 3500, to |-> 4000]

\* C23: a run leaves the transcription poll loop only with the flashcards
\* of a poll that observed completed, or with the transcription-failed
\* error of a poll that observed failed; on any other poll it stays in the
\* loop.
C23_PollEndsOnTerminalStatus ==
  [][\A i \in Slots :
       (slot[i].pc = "poll" /\ slot'[i].pc # "poll")
         => \/ slot'[i].pc = "save"
            \/ slot'[i].err = ErrAssembly]_vars

\* C24: a run that starts while the Job Record of its job is not stored
\* ends in that step, without an error, and leaves the store and the temp
\* directory as they were (it reaches no collaborator call).
C24_AbsentRecordEndsSilently ==
  [][\A i \in Slots :
       (/\ slot[i].pc \in {"load", "queued"}
        /\ slot'[i].pc # slot[i].pc
        /\ FindById(i) = {})
         => /\ slot'[i].pc = "done"
            /\ slot'[i].err = Null
            /\ slot'[i].outcome = "returned"
            /\ UNCHANGED <<store, files>>]_vars

\* C25: no step changes the owner, videoId, title, description, thumbnail
\* or creation time of a stored Job Record, and a step that changes a
\* record at all is a store write of the run that processes that record.
C25_MetadataImmutable ==
  [][store' # store
       => \A r \in store \ store' : \A q \in store' :
            q.id = r.id
              => /\ q.userId = r.userId
                 /\ q.videoId = r.videoId
                 /\ q.title = r.title
                 /\ q.description = r.description
                 /\ q.thumbnail = r.thumbnail
                 /\ q.createdAt = r.createdAt
                 /\ slot[r.id].pc \in {"mark", "complete", "catchSave"}
                 /\ slot'[r.id].pc # slot[r.id].pc]_vars

\* a run has completed its record while the record of another run is
\* stored as it was created
C25_Witness ==
  \E r, q \in store :
    /\ r.id # q.id
    /\ r.status = "completed"
    /\ r.flashcards # <<>>
    /\ q.status = "pending"
    /\ q.videoId = r.videoId

\* C26: in the audio-chunking worker every chunk file listed for a job was
\* written from that job's own audio, and so was every chunk transcribed
\* into the job's transcript.
C26_OnlyOwnChunks ==
  variant = "chunks"
    => \A i \in Slots :
         /\ \A k \in 1..Len(slot[i].chunks) : files[slot[i].chunks[k]] = i
         /\ \A k \in 1..Len(slot[i].transcript) : slot[i].transcript[k] = i

\* C27: in the queue-based workers a job that has ended is reported
\* completed exactly when its run persisted a Job Record, and when it is
\* reported failed no record of its (owner, videoId) is stored, so that a
\* later submission of the pair passes the duplicate check.  (Stated for
\* behaviours without a delete, which would remove a persisted record.)
C27_QueueOutcomeAgreesWithStore ==
  (variant \in QueueVariants /\ deletes = 0)
    => \A i \in Slots :
         slot[i].pc = "done"
           => /\ slot[i].outcome = "completed" <=> FindById(i) # {}
              /\ slot[i].outcome = "failed"
                   => FindOne(slot[i].userId, slot[i].videoId) = {}

\* C28: in the status variant a run that found its Job Record eventually
\* ends with that record completed or failed, unless the record is deleted
\* meanwhile.
C28_RunEndsCompletedOrFailed ==
  \A i \in Slots :
    (variant = "status" /\ slot[i].pc = "mark")
      ~> \/ FindById(i) = {}
         \/ /\ slot[i].pc = "done"
            /\ \E r \in FindById(i) : r.status \in {"completed", "failed"}

====
